---- MODULE Spec2Model ----
(***************************************************************************)
(* Model of the crypto price streamer server: the RPC handlers of          *)
(* apps/server/src/index.ts (addTicker, removeTicker, streamPrices) and    *)
(* the TradingViewScraper of apps/server/src/scraper.ts they drive.        *)
(*                                                                         *)
(* Node runs one handler continuation at a time, so every action below is  *)
(* one run-to-suspension segment of a handler: from the point where a      *)
(* promise it awaited settles (or a callback is invoked) to the next await *)
(* on browser I/O, yield, or return.                                       *)
(*                                                                         *)
(* Left out: wall-clock values (lastUpdated, PriceUpdate.timestamp), the   *)
(* exchange string, logging, and the browser launch.  The awaits inside    *)
(* validateTicker are one step.  An await on a promise that needs no       *)
(* browser I/O is taken to continue in the same step.  A price is a number *)
(* of thousandths; a formatted price (toFixed(2)) a number of hundredths.  *)
(***************************************************************************)
EXTENDS Integers, Sequences, FiniteSets, TLC

(* ------------------------------ bounds -------------------------------- *)
MaxCalls == 3      \* AddTicker/RemoveTicker requests issued in one run
MaxUpdates == 3    \* price notifications the provider delivers in one run

(* ------------------------------ domains ------------------------------- *)
Symbols == {"A", "B"}
ReqTickers == {"a", "A", "B"}            \* req.ticker as typed by the caller
Viewers == {"v1", "v2"}
Null == -1                               \* null / absent

\* The texts a page hands to the exposed function (raw element text).
RawTexts ==
  { <<>>,
    <<"n", "/", "a">>,
    <<"$", "1", ".", "0", "0", "4">>,
    <<"1", ".", "0", "0", "6">> }

\* The two of them the larger specifications draw from.
FeedTexts == { <<>>, <<"$", "1", ".", "0", "0", "4">> }

(* --------------------------- pure functions --------------------------- *)
\* (mutation of ToUpperCase: the request ticker is used as typed)
ToUpperCaseNot(s) == s

\* String.prototype.toUpperCase on the request tickers.
ToUpperCase(s) ==
  CASE s = "a" -> "A"
    [] s = "b" -> "B"
    [] OTHER -> s

DigitVal(c) ==
  CASE c = "0" -> 0 [] c = "1" -> 1 [] c = "2" -> 2 [] c = "3" -> 3
    [] c = "4" -> 4 [] c = "5" -> 5 [] c = "6" -> 6 [] c = "7" -> 7
    [] c = "8" -> 8 [] c = "9" -> 9 [] OTHER -> Null

IsDigit(c) == DigitVal(c) # Null

\* text.replace(/[\$,\s]/g, "")
StripPrice(text) == SelectSeq(text, LAMBDA c : c \notin {"$", ",", " "})

\* Length of the leading run of digits of s starting at position i.
RECURSIVE DigitRun(_, _)
DigitRun(s, i) ==
  IF i <= Len(s) /\ IsDigit(s[i]) THEN 1 + DigitRun(s, i + 1) ELSE 0

RECURSIVE DigitsValue(_, _, _)
DigitsValue(s, i, n) ==
  IF n = 0 THEN 0 ELSE DigitsValue(s, i, n - 1) * 10 + DigitVal(s[i + n - 1])

\* parseFloat on an unsigned decimal text, in thousandths; Null for NaN.
\* It reads the longest prefix digits[.digits] and ignores the rest.
ParseFloat(s) ==
  LET ni == DigitRun(s, 1)
      dot == ni + 1 <= Len(s) /\ s[ni + 1] = "."
      nf == IF dot THEN DigitRun(s, ni + 2) ELSE 0
      f3 == IF nf > 3 THEN 3 ELSE nf
      frac == DigitsValue(s, ni + 2, f3)
      scale == CASE f3 = 0 -> 0 [] f3 = 1 -> 100 [] f3 = 2 -> 10 [] OTHER -> 1
  IN IF ni = 0 /\ nf = 0 THEN Null
     ELSE DigitsValue(s, 1, ni) * 1000 + frac * scale

\* cleanPriceText: null for an empty or non-numeric text, else the number.
cleanPriceText(text) ==
  IF Len(text) = 0 THEN Null ELSE ParseFloat(StripPrice(text))

\* Number.prototype.toFixed(2) of a price in thousandths, in hundredths.
ToFixed2(p) == (p + 5) \div 10

(* ------------------------------ state --------------------------------- *)
VARIABLES
  activeTickers,    \* Map<string, TickerData> as its entries in insertion order
  tickerObjs,       \* the TickerData objects ever created (index = identity)
  pages,            \* scraper.pages: symbol -> page id, 0 when absent
  subscriptions,    \* scraper.subscriptions
  tabs,             \* the ticker tabs ever opened in the browser (index = page id)
  calls,            \* the AddTicker/RemoveTicker requests and where each stands
  provSeq,          \* per symbol, how many price notifications were delivered
  streamingClients, \* the registered StreamClient objects (by viewer)
  isActive,         \* the isActive flag of each viewer's streamPrices call
  updateQueue,      \* the updateQueue of each viewer's streamPrices call
  currentTickers,   \* the snapshot array of each streamPrices call
  snapIdx,          \* index of the snapshot entry the generator is yielding
  vpc,              \* where each viewer's generator stands
  aborted,          \* context.signal.aborted of each streamPrices call
  sent,             \* the updates each viewer's generator has yielded so far
  snap,             \* per viewer: the symbols that had a price when the call
                    \* started, and the symbols its snapshot loop has yielded
  shutdown,         \* where the SIGINT handler and scraper.close() stand
  tickers,          \* web client: the `tickers` state (the displayed rows) of
                    \* each viewer's page
  received,         \* how many of sent[v] the page's stream handler has handled
  removeClicks      \* per viewer and symbol, the number of requests the server
                    \* had seen when the viewer last clicked remove (Null: never)

regVars == <<activeTickers, tickerObjs>>
scraperVars == <<pages, subscriptions, tabs>>
viewerVars == <<streamingClients, isActive, currentTickers, snapIdx, vpc, aborted, sent,
                snap>>
clientVars == <<tickers, received, removeClicks>>
vars == <<activeTickers, tickerObjs, pages, subscriptions, tabs, calls, provSeq,
          streamingClients, isActive, updateQueue, currentTickers, snapIdx, vpc,
          aborted, sent, snap, shutdown,
          tickers, received, removeClicks>>

(* ------------------------- the registry (Map) ------------------------- *)
Has(S) == \E i \in 1..Len(activeTickers) : activeTickers[i].symbol = S

\* activeTickers.get(S): the identity of the TickerData object, Null if absent.
Get(S) ==
  IF Has(S)
  THEN activeTickers[CHOOSE i \in 1..Len(activeTickers) : activeTickers[i].symbol = S].obj
  ELSE Null

\* Map.set keeps the position of an existing key and appends a new one.
MapSet(m, S, o) ==
  IF \E i \in 1..Len(m) : m[i].symbol = S
  THEN [i \in 1..Len(m) |-> IF m[i].symbol = S THEN [symbol |-> S, obj |-> o] ELSE m[i]]
  ELSE Append(m, [symbol |-> S, obj |-> o])

\* (mutation of MapDelete: the entry is left in the Map)
MapDeleteNothing(m, S) == m

MapDelete(m, S) == SelectSeq(m, LAMBDA e : e.symbol # S)

Registry == {activeTickers[i].symbol : i \in 1..Len(activeTickers)}

\* A provider session for S: subscribed, with an open tab recorded in pages.
HasPage(S) == pages[S] # 0
HasSession(S) == S \in subscriptions /\ HasPage(S) /\ tabs[pages[S]].open

OpenTabs(S) == {p \in 1..Len(tabs) : tabs[p].symbol = S /\ tabs[p].open}

\* No snapshot taken yet.
NoSnap == [known |-> {}, emitted |-> <<>>]

\* The process has not received SIGINT.
Running == [pc |-> "up", visited |-> {}, closed |-> FALSE]

Init ==
  /\ activeTickers = <<>>
  /\ tickerObjs = <<>>
  /\ pages = [S \in Symbols |-> 0]
  /\ subscriptions = {}
  /\ tabs = <<>>
  /\ calls = <<>>
  /\ provSeq = [S \in Symbols |-> 0]
  /\ streamingClients = {}
  /\ isActive = [v \in Viewers |-> FALSE]
  /\ updateQueue = [v \in Viewers |-> <<>>]
  /\ currentTickers = [v \in Viewers |-> <<>>]
  /\ snapIdx = [v \in Viewers |-> 0]
  /\ vpc = [v \in Viewers |-> "idle"]
  /\ aborted = [v \in Viewers |-> FALSE]
  /\ sent = [v \in Viewers |-> <<>>]
  /\ snap = [v \in Viewers |-> NoSnap]
  /\ shutdown = Running
  /\ tickers = [v \in Viewers |-> <<>>]
  /\ received = [v \in Viewers |-> 0]
  /\ removeClicks = [v \in Viewers |-> [S \in Symbols |-> Null]]

(* ------------------- addTicker's price / error callbacks --------------- *)
\* (mutation of Send: the update is put at the front of the queue)
SendUnshift(q, active, update) == IF active THEN <<update>> \o q ELSE q

\* (mutation of Send: an update is dropped while earlier ones are queued)
SendIfEmpty(q, active, update) == IF active /\ q = <<>> THEN Append(q, update) ELSE q

\* client.send: push onto the client's queue unless it was closed.
Send(q, active, update) == IF active THEN Append(q, update) ELSE q

\* (mutation of CallbackApplies: the callback does not test tickerData)
CallbackAppliesAlways(ticker) == TRUE

\* `if (tickerData)`: the callback acts only while the ticker is in the Map.
CallbackApplies(ticker) == Has(ticker)

\* new PriceUpdate({ticker, price: price.toFixed(2), ...}); upd names the
\* provider notification it came from.
PriceUpdate(ticker, price, k) ==
  [ticker |-> ticker, price |-> ToFixed2(price), removed |-> FALSE, upd |-> k]

\* The success callback's effect on the TickerData objects ...
PriceObjs(ticker, price) ==
  IF CallbackApplies(ticker) /\ Get(ticker) # Null
  THEN [tickerObjs EXCEPT ![Get(ticker)] =
          [symbol |-> ticker, currentPrice |-> price, upd |-> provSeq[ticker] + 1]]
  ELSE tickerObjs

\* (mutation of PriceQueues: the loop pushes onto the queue of every client
\* ever created, registered and active or not)
PriceQueuesEveryone(ticker, price) ==
  IF CallbackApplies(ticker)
  THEN [v \in Viewers |->
          Append(updateQueue[v], PriceUpdate(ticker, price, provSeq[ticker] + 1))]
  ELSE updateQueue

\* (mutation of PriceQueues: the loop waits on a client whose queue is not
\* drained, the clients after it get nothing)
PriceQueuesWaiting(ticker, price) ==
  IF CallbackApplies(ticker) /\ \A v \in streamingClients : updateQueue[v] = <<>>
  THEN [v \in Viewers |->
          IF v \in streamingClients
          THEN Send(updateQueue[v], isActive[v],
                    PriceUpdate(ticker, price, provSeq[ticker] + 1))
          ELSE updateQueue[v]]
  ELSE updateQueue

\* ... and on the viewers' queues (the broadcast loop).
PriceQueues(ticker, price) ==
  IF CallbackApplies(ticker)
  THEN [v \in Viewers |->
          IF v \in streamingClients
          THEN Send(updateQueue[v], isActive[v],
                    PriceUpdate(ticker, price, provSeq[ticker] + 1))
          ELSE updateQueue[v]]
  ELSE updateQueue

\* onPrice(price) for `ticker`.
OnPrice(ticker, price) ==
  /\ tickerObjs' = PriceObjs(ticker, price)
  /\ updateQueue' = PriceQueues(ticker, price)
  /\ provSeq' = [provSeq EXCEPT ![ticker] = @ + 1]

\* Price notifications delivered so far, over all symbols.
Updates == provSeq["A"] + provSeq["B"]

NoPrice == UNCHANGED <<tickerObjs, updateQueue, provSeq>>

(* ------------------------------ requests ------------------------------ *)
\* {symbol: ticker, currentPrice: null, lastUpdated: null}
TickerData(ticker) == [symbol |-> ticker, currentPrice |-> Null, upd |-> 0]

NewTab(S) == [symbol |-> S, open |-> TRUE, exposed |-> FALSE, observing |-> FALSE]

InFlight == {c \in 1..Len(calls) : calls[c].pc # "done"}

\* A request: op, the upper-cased ticker, where it stands (pc), the page its
\* scraper call holds, and its response.  Two fields only record history:
\* during = the requests in flight when it began, failed = the catch block
\* of subscribeToTicker ran for it ("Failed to subscribe" was logged).
\* vpage is the page validateTicker opened for it: "none", "open", "closed".
Call(op, ticker, pc, page, resp) ==
  [op |-> op, ticker |-> ticker, pc |-> pc, page |-> page, resp |-> resp,
   during |-> InFlight, failed |-> FALSE,
   vpage |-> IF pc = "validate" THEN "open" ELSE "none"]

\* (mutation of ValidationPage: the catch path of validateTicker forgets
\* to close the page)
ValidationPageLeaked(isValid) == IF isValid THEN "closed" ELSE "open"

\* validateTicker awaits page.close() on both of its paths before it
\* returns (after page.$ and in the catch block).
ValidationPage(isValid) == "closed"

Finish(c, resp) == [calls EXCEPT ![c].pc = "done", ![c].resp = resp]
Suspend(c, pc, page) == [calls EXCEPT ![c].pc = pc, ![c].page = page]

\* addTicker up to its first await (validateTicker opens a page and loads it).
AddTicker(r) ==
  /\ Len(calls) < MaxCalls
  /\ LET ticker == ToUpperCase(r) IN
       calls' = Append(calls,
                  IF Has(ticker)
                  THEN Call("add", ticker, "done", 0, "already")
                  ELSE Call("add", ticker, "validate", 0, "none"))
  /\ UNCHANGED <<regVars, scraperVars, provSeq, updateQueue, viewerVars, shutdown, clientVars>>

\* The catch block of subscribeToTicker, with addTicker's error callback;
\* subscribeToTicker then returns normally and addTicker answers success.
SubscribeCatch(c) ==
  /\ subscriptions' = subscriptions \ {calls[c].ticker}
  /\ activeTickers' = MapDelete(activeTickers, calls[c].ticker)
  /\ calls' = [Finish(c, "ok") EXCEPT ![c].failed = TRUE]

\* validateTicker returns; on true the entry is set and subscribeToTicker runs
\* up to its first await: closing the page of an existing subscription, or
\* loading a new tab, or the handshake on a reused tab.
ValidateDone(c, isValid) ==
  /\ c \in 1..Len(calls) /\ calls[c].pc = "validate"
  /\ LET ticker == calls[c].ticker
         vpage == ValidationPage(isValid)
     IN
     IF ~isValid
     THEN /\ calls' = [Finish(c, "invalid") EXCEPT ![c].vpage = vpage]
          /\ UNCHANGED <<regVars, scraperVars>>
     ELSE /\ tickerObjs' = Append(tickerObjs, TickerData(ticker))
          /\ activeTickers' = MapSet(activeTickers, ticker, Len(tickerObjs) + 1)
          /\ IF ticker \in subscriptions
             THEN /\ subscriptions' = subscriptions \ {ticker}
                  /\ calls' = [(IF HasPage(ticker)
                                THEN Suspend(c, "resubClose", pages[ticker])
                                ELSE Finish(c, "ok")) EXCEPT ![c].vpage = vpage]
                  /\ UNCHANGED <<pages, tabs>>
             ELSE IF HasPage(ticker)
             THEN /\ calls' = [Suspend(c, "handshake", pages[ticker])
                                 EXCEPT ![c].vpage = vpage]
                  /\ UNCHANGED scraperVars
             ELSE /\ tabs' = Append(tabs, NewTab(ticker))
                  /\ calls' = [Suspend(c, "goto", Len(tabs) + 1)
                                 EXCEPT ![c].vpage = vpage]
                  /\ UNCHANGED <<pages, subscriptions>>
  /\ UNCHANGED <<provSeq, updateQueue, viewerVars, shutdown, clientVars>>

\* page.goto settles in getPageForTicker; a rejection leaves subscribeToTicker
\* and addTicker (it is outside the try), the request fails with an error.
GotoDone(c, ok) ==
  /\ c \in 1..Len(calls) /\ calls[c].pc = "goto"
  /\ IF ok
     THEN /\ pages' = [pages EXCEPT ![calls[c].ticker] = calls[c].page]
          /\ calls' = Suspend(c, "handshake", calls[c].page)
     ELSE /\ calls' = Finish(c, "error")
          /\ UNCHANGED pages
  /\ UNCHANGED <<regVars, subscriptions, tabs, provSeq, updateQueue, viewerVars, shutdown, clientVars>>

\* The selector search settles: a selector was found, or only the text
\* fallback (which reports its price at once), or nothing (throw); then
\* exposeFunction, which rejects on a tab that already has the function.
HandshakeReady(c, sel, text) ==
  /\ c \in 1..Len(calls) /\ calls[c].pc = "handshake"
  /\ LET ticker == calls[c].ticker
         page == calls[c].page
     IN
     IF ~tabs[page].open \/ sel = "none"
     THEN /\ SubscribeCatch(c)
          /\ NoPrice
          /\ UNCHANGED <<pages, tabs>>
     ELSE /\ IF sel = "fallback"
             THEN /\ cleanPriceText(text) # Null
                  /\ Updates < MaxUpdates
                  /\ OnPrice(ticker, cleanPriceText(text))
             ELSE NoPrice
          /\ IF tabs[page].exposed
             THEN /\ SubscribeCatch(c)
                  /\ UNCHANGED <<pages, tabs>>
             ELSE /\ tabs' = [tabs EXCEPT ![page].exposed = TRUE,
                                          ![page].observing = (sel = "selector")]
                  /\ calls' = Suspend(c, "inject", page)
                  /\ UNCHANGED <<activeTickers, pages, subscriptions>>
  /\ UNCHANGED <<viewerVars, shutdown, clientVars>>

\* The observer injection settles: the subscription is recorded.
SubscribeDone(c) ==
  /\ c \in 1..Len(calls) /\ calls[c].pc = "inject"
  /\ IF tabs[calls[c].page].open
     THEN /\ subscriptions' = subscriptions \cup {calls[c].ticker}
          /\ calls' = Finish(c, "ok")
          /\ UNCHANGED activeTickers
     ELSE SubscribeCatch(c)
  /\ UNCHANGED <<tickerObjs, pages, tabs, provSeq, updateQueue, viewerVars, shutdown, clientVars>>

\* page.close() settles in unsubscribeFromTicker (a rejection is only logged).
ClosePage(page, closeOk) ==
  IF closeOk THEN [tabs EXCEPT ![page].open = FALSE] ELSE tabs

\* (mutation of PagesDelete: a failed page.close() leaves unsubscribeFromTicker
\* before pages.delete)
PagesDeleteUnlessFailed(S, closeOk) == IF closeOk THEN [pages EXCEPT ![S] = 0] ELSE pages

\* unsubscribeFromTicker wraps page.close() in try/catch: pages.delete(symbol)
\* runs whether the close failed or not.
PagesDelete(S, closeOk) == [pages EXCEPT ![S] = 0]

\* ... called from subscribeToTicker's already-subscribed branch.
ResubClosed(c, closeOk) ==
  /\ c \in 1..Len(calls) /\ calls[c].pc = "resubClose"
  /\ tabs' = ClosePage(calls[c].page, closeOk)
  /\ pages' = PagesDelete(calls[c].ticker, closeOk)
  /\ calls' = Finish(c, "ok")
  /\ UNCHANGED <<regVars, subscriptions, provSeq, updateQueue, viewerVars, shutdown, clientVars>>

\* removeTicker up to its first await.
RemoveTicker(r) ==
  /\ Len(calls) < MaxCalls
  /\ LET ticker == ToUpperCase(r) IN
     IF ~Has(ticker)
     THEN /\ calls' = Append(calls, Call("remove", ticker, "done", 0, "nottracked"))
          /\ UNCHANGED <<activeTickers, subscriptions>>
     ELSE /\ subscriptions' = subscriptions \ {ticker}
          /\ IF HasPage(ticker)
             THEN /\ calls' = Append(calls,
                                Call("remove", ticker, "removeClose", pages[ticker], "none"))
                  /\ UNCHANGED activeTickers
             ELSE /\ activeTickers' = MapDelete(activeTickers, ticker)
                  /\ calls' = Append(calls, Call("remove", ticker, "done", 0, "ok"))
  /\ UNCHANGED <<tickerObjs, pages, tabs, provSeq, updateQueue, viewerVars, shutdown, clientVars>>

\* ... and after page.close(): the page and the entry are deleted.
RemoveClosed(c, closeOk) ==
  /\ c \in 1..Len(calls) /\ calls[c].pc = "removeClose"
  /\ tabs' = ClosePage(calls[c].page, closeOk)
  /\ pages' = PagesDelete(calls[c].ticker, closeOk)
  /\ activeTickers' = MapDelete(activeTickers, calls[c].ticker)
  /\ calls' = Finish(c, "ok")
  /\ UNCHANGED <<tickerObjs, subscriptions, provSeq, updateQueue, viewerVars, shutdown, clientVars>>

\* The MutationObserver of an open tab calls the exposed function.
PriceCallback(p, text) ==
  /\ p \in 1..Len(tabs)
  /\ tabs[p].open /\ tabs[p].observing
  /\ Updates < MaxUpdates
  /\ IF cleanPriceText(text) # Null
     THEN OnPrice(tabs[p].symbol, cleanPriceText(text))
     ELSE NoPrice
  /\ UNCHANGED <<activeTickers, scraperVars, calls, viewerVars, shutdown, clientVars>>

\* The steps of the requests, for request tickers R and page texts T.
CallNext(R, T) ==
  \/ \E r \in R : AddTicker(r)
  \/ \E r \in R : RemoveTicker(r)
  \/ \E c \in 1..Len(calls), b \in BOOLEAN : ValidateDone(c, b)
  \/ \E c \in 1..Len(calls), b \in BOOLEAN : GotoDone(c, b)
  \/ \E c \in 1..Len(calls), sel \in {"selector", "fallback", "none"}, t \in T :
        HandshakeReady(c, sel, t)
  \/ \E c \in 1..Len(calls) : SubscribeDone(c)
  \/ \E c \in 1..Len(calls), b \in BOOLEAN : ResubClosed(c, b)
  \/ \E c \in 1..Len(calls), b \in BOOLEAN : RemoveClosed(c, b)
  \/ \E p \in 1..Len(tabs), t \in T : PriceCallback(p, t)

(* ---------------------------- streamPrices ---------------------------- *)
\* The PriceUpdate built from a TickerData object in the snapshot loop.
InitialUpdate(o) ==
  [ticker |-> tickerObjs[o].symbol, price |-> ToFixed2(tickerObjs[o].currentPrice),
   removed |-> FALSE, upd |-> tickerObjs[o].upd]

\* The first snapshot index >= from whose object has a price now; 0 if none.
\* (isActive, the other half of the loop's test, is true until finally runs.)
NextSnap(objs, from) ==
  LET S == {i \in from..Len(objs) : tickerObjs[objs[i]].currentPrice # Null}
  IN IF S = {} THEN 0 ELSE CHOOSE i \in S : \A j \in S : i <= j

\* The finally block.
Finally(v) ==
  /\ streamingClients' = streamingClients \ {v}
  /\ isActive' = [isActive EXCEPT ![v] = FALSE]
  /\ vpc' = [vpc EXCEPT ![v] = "closed"]
  /\ UNCHANGED <<updateQueue, sent>>

\* updateQueue.shift() and yield.
YieldLive(v) ==
  /\ sent' = [sent EXCEPT ![v] = Append(@, Head(updateQueue[v]))]
  /\ updateQueue' = [updateQueue EXCEPT ![v] = Tail(@)]
  /\ vpc' = [vpc EXCEPT ![v] = "liveYield"]
  /\ UNCHANGED <<streamingClients, isActive>>

\* (mutation of DrainOrSleep: the inner loop's test never holds)
DrainOrSleepNever(v) ==
  /\ vpc' = [vpc EXCEPT ![v] = "sleep"]
  /\ UNCHANGED <<streamingClients, isActive, updateQueue, sent>>

\* The inner while loop: yield the next queued update or go to sleep.
DrainOrSleep(v) ==
  IF updateQueue[v] # <<>> /\ isActive[v]
  THEN YieldLive(v)
  ELSE /\ vpc' = [vpc EXCEPT ![v] = "sleep"]
       /\ UNCHANGED <<streamingClients, isActive, updateQueue, sent>>

\* The outer while loop test, then the inner loop.
LiveLoop(v) ==
  IF isActive[v] /\ ~aborted[v] THEN DrainOrSleep(v) ELSE Finally(v)

\* The symbols of the registry that have a price now.
KnownNow ==
  {activeTickers[i].symbol : i \in {j \in 1..Len(activeTickers) :
      tickerObjs[activeTickers[j].obj].currentPrice # Null}}

\* History of the snapshot loop of one call: the symbols that had a price
\* when the call started, and the symbols yielded by the loop, in order.
SnapYielded(v, known, o) ==
  [known |-> known, emitted |-> Append(snap[v].emitted, tickerObjs[o].symbol)]

\* The call starts: the client is registered, the snapshot array is taken and
\* the generator runs to its first yield (or to the first sleep).
StreamPrices(v) ==
  /\ vpc[v] = "idle"
  /\ streamingClients' = streamingClients \cup {v}
  /\ isActive' = [isActive EXCEPT ![v] = TRUE]
  /\ LET objs == [i \in 1..Len(activeTickers) |-> activeTickers[i].obj]
         i == NextSnap(objs, 1)
     IN /\ currentTickers' = [currentTickers EXCEPT ![v] = objs]
        /\ snapIdx' = [snapIdx EXCEPT ![v] = i]
        /\ IF i # 0
           THEN /\ sent' = [sent EXCEPT ![v] = Append(@, InitialUpdate(objs[i]))]
                /\ snap' = [snap EXCEPT ![v] = SnapYielded(v, KnownNow, objs[i])]
                /\ vpc' = [vpc EXCEPT ![v] = "snapYield"]
           ELSE /\ vpc' = [vpc EXCEPT ![v] = "sleep"]
                /\ snap' = [snap EXCEPT ![v].known = KnownNow]
                /\ UNCHANGED sent
  /\ UNCHANGED <<regVars, scraperVars, calls, provSeq, updateQueue, aborted, shutdown, clientVars>>

\* The consumer takes the next value while the generator is in the snapshot
\* loop: the next entry that has a price now is yielded, else the live loop
\* is entered.
SnapshotNext(v) ==
  /\ vpc[v] = "snapYield"
  /\ LET i == NextSnap(currentTickers[v], snapIdx[v] + 1) IN
     IF i # 0
     THEN /\ sent' = [sent EXCEPT ![v] = Append(@, InitialUpdate(currentTickers[v][i]))]
          /\ snap' = [snap EXCEPT ![v] = SnapYielded(v, snap[v].known, currentTickers[v][i])]
          /\ snapIdx' = [snapIdx EXCEPT ![v] = i]
          /\ UNCHANGED <<streamingClients, isActive, updateQueue, vpc>>
     ELSE /\ LiveLoop(v)
          /\ UNCHANGED <<snapIdx, snap>>
  /\ UNCHANGED <<regVars, scraperVars, calls, provSeq, currentTickers, aborted, shutdown, clientVars>>

\* The consumer takes the next value while the generator is at a live yield.
LiveNext(v) ==
  /\ vpc[v] = "liveYield"
  /\ DrainOrSleep(v)
  /\ UNCHANGED <<regVars, scraperVars, calls, provSeq, currentTickers, snapIdx, aborted,
                 snap, shutdown, clientVars>>

\* The 100 ms timer fires.
Tick(v) ==
  /\ vpc[v] = "sleep"
  /\ LiveLoop(v)
  /\ UNCHANGED <<regVars, scraperVars, calls, provSeq, currentTickers, snapIdx, aborted,
                 snap, shutdown, clientVars>>

\* The call's signal aborts (disconnect, deadline) while the generator waits.
Abort(v) ==
  /\ vpc[v] \in {"snapYield", "liveYield", "sleep"}
  /\ ~aborted[v]
  /\ aborted' = [aborted EXCEPT ![v] = TRUE]
  /\ UNCHANGED <<regVars, scraperVars, calls, provSeq, updateQueue,
                 streamingClients, isActive, currentTickers, snapIdx, vpc, sent,
                 snap, shutdown, clientVars>>

\* The consumer ends the generator at a yield (return() or throw() after a
\* cancel or a failed write): a yield inside the try runs the finally block,
\* a snapshot yield is outside of it and the generator just ends.
Cancel(v) ==
  /\ vpc[v] \in {"snapYield", "liveYield"}
  /\ aborted' = [aborted EXCEPT ![v] = TRUE]
  /\ IF vpc[v] = "liveYield"
     THEN Finally(v)
     ELSE /\ vpc' = [vpc EXCEPT ![v] = "returned"]
          /\ UNCHANGED <<streamingClients, isActive, updateQueue, sent>>
  /\ UNCHANGED <<regVars, scraperVars, calls, provSeq, currentTickers, snapIdx,
                 snap, shutdown, clientVars>>

\* The steps of the streamPrices calls of the viewers V.
ViewerNext(V) ==
  \/ \E v \in V : StreamPrices(v)
  \/ \E v \in V : SnapshotNext(v)
  \/ \E v \in V : LiveNext(v)
  \/ \E v \in V : Tick(v)
  \/ \E v \in V : Abort(v)
  \/ \E v \in V : Cancel(v)

\* The whole server.
Next == CallNext(ReqTickers, RawTexts) \/ ViewerNext(Viewers)

Spec == Init /\ [][Next]_vars

\* Registration and removal on their own: every interleaving of MaxCalls
\* requests with the provider's notifications, no viewer connected.
RegNext == CallNext(ReqTickers, FeedTexts)

SpecReg == Init /\ [][RegNext]_vars

\* An AddTicker request that has succeeded, with nothing else in flight.
AddedCall(S, page) ==
  [op |-> "add", ticker |-> S, pc |-> "done", page |-> page, resp |-> "ok",
   during |-> {}, failed |-> FALSE, vpage |-> "closed"]

\* Streaming is studied from the state the server is in once AddTicker("A")
\* and AddTicker("B") have both succeeded and no price has arrived yet.
InitStream ==
  /\ activeTickers = <<[symbol |-> "A", obj |-> 1], [symbol |-> "B", obj |-> 2]>>
  /\ tickerObjs = <<TickerData("A"), TickerData("B")>>
  /\ pages = [S \in Symbols |-> IF S = "A" THEN 1 ELSE 2]
  /\ subscriptions = {"A", "B"}
  /\ tabs = <<[symbol |-> "A", open |-> TRUE, exposed |-> TRUE, observing |-> TRUE],
              [symbol |-> "B", open |-> TRUE, exposed |-> TRUE, observing |-> TRUE]>>
  /\ calls = <<AddedCall("A", 1), AddedCall("B", 2)>>
  /\ provSeq = [S \in Symbols |-> 0]
  /\ streamingClients = {}
  /\ isActive = [v \in Viewers |-> FALSE]
  /\ updateQueue = [v \in Viewers |-> <<>>]
  /\ currentTickers = [v \in Viewers |-> <<>>]
  /\ snapIdx = [v \in Viewers |-> 0]
  /\ vpc = [v \in Viewers |-> "idle"]
  /\ aborted = [v \in Viewers |-> FALSE]
  /\ sent = [v \in Viewers |-> <<>>]
  /\ snap = [v \in Viewers |-> NoSnap]
  /\ shutdown = Running
  /\ tickers = [v \in Viewers |-> <<>>]
  /\ received = [v \in Viewers |-> 0]
  /\ removeClicks = [v \in Viewers |-> [S \in Symbols |-> Null]]

\* Requests that remove: removeTicker and the page.close() it awaits.
\* SIGINT arrives: the handler calls scraper.close(), which starts its loop
\* over pages.values().
Sigint ==
  /\ shutdown.pc = "up"
  /\ shutdown' = [shutdown EXCEPT !.pc = "pages"]
  /\ UNCHANGED <<regVars, scraperVars, calls, provSeq, updateQueue, viewerVars, clientVars>>

\* The symbols whose page the loop of close() has still to visit.  (The Map
\* iterator is live, and its order is the insertion order, which pages does
\* not record: any order is allowed here.)
ToClose == {S \in Symbols : HasPage(S) /\ S \notin shutdown.visited}

\* (mutation of CloseAllRaises: the loop catches a failed page.close())
CloseAllCatches(closeOk) == FALSE

\* `await page.close()` in the loop of close() is in no try block: a
\* rejection leaves the loop and close().
CloseAllRaises(closeOk) == ~closeOk

\* page.close() settles for the next page of the loop.  A rejection ends
\* close() and the SIGINT handler, before process.exit.
CloseAllPage(S, closeOk) ==
  /\ shutdown.pc = "pages"
  /\ S \in ToClose
  /\ tabs' = ClosePage(pages[S], closeOk)
  /\ shutdown' = IF CloseAllRaises(closeOk)
                 THEN [shutdown EXCEPT !.pc = "raised"]
                 ELSE [shutdown EXCEPT !.visited = @ \cup {S}]
  /\ UNCHANGED <<regVars, pages, subscriptions, calls, provSeq, updateQueue, viewerVars,
                 clientVars>>

\* The loop is over: pages.clear(), the context and the browser are closed
\* (which closes every tab), and the handler calls process.exit(0).
CloseAllDone ==
  /\ shutdown.pc = "pages"
  /\ ToClose = {}
  /\ pages' = [S \in Symbols |-> 0]
  /\ tabs' = [p \in 1..Len(tabs) |-> [tabs[p] EXCEPT !.open = FALSE]]
  /\ shutdown' = [shutdown EXCEPT !.pc = "exited", !.closed = TRUE]
  /\ UNCHANGED <<regVars, subscriptions, calls, provSeq, updateQueue, viewerVars,
                 clientVars>>

ShutdownNext == Sigint \/ (\E S \in Symbols, b \in BOOLEAN : CloseAllPage(S, b)) \/ CloseAllDone

\* The process runs its handlers until process.exit.
Alive == shutdown.pc # "exited"

(* ------------------------- web client (Home) -------------------------- *)
\* The symbols in the order localeCompare gives them.
SymbolOrder == <<"A", "B">>

RECURSIVE SortFrom(_, _)
\* The rows whose symbol is SymbolOrder[k] or later, by symbol, rows of one
\* symbol in the order they had (Array.prototype.sort is stable).
SortFrom(rows, k) ==
  IF k > Len(SymbolOrder)
  THEN <<>>
  ELSE SelectSeq(rows, LAMBDA t : t.symbol = SymbolOrder[k]) \o SortFrom(rows, k + 1)

\* (mutation of SortRows: a new row stays at the end of the list)
SortRowsNot(rows) == rows

\* rows.sort((a, b) => a.symbol.localeCompare(b.symbol))
SortRows(rows) == SortFrom(rows, 1)

\* prev.filter(t => t.symbol !== ticker)
FilterRows(prev, ticker) == SelectSeq(prev, LAMBDA t : t.symbol # ticker)

\* prev.findIndex(t => t.symbol === ticker), 0 for -1.
FindIndex(prev, ticker) ==
  LET I == {i \in 1..Len(prev) : prev[i].symbol = ticker}
  IN IF I = {} THEN 0 ELSE CHOOSE i \in I : \A j \in I : i <= j

\* The row the handler builds from a response.
Row(response) == [symbol |-> response.ticker, price |-> response.price]

\* The stream handler's update of `tickers` for one response.
StreamHandler(prev, response) ==
  IF response.removed
  THEN FilterRows(prev, response.ticker)
  ELSE IF FindIndex(prev, response.ticker) = 0
       THEN SortRows(Append(prev, Row(response)))
       ELSE [prev EXCEPT ![FindIndex(prev, response.ticker)] = Row(response)]

\* handleRemoveTicker takes the row out of the list at once.
ShownAfterClick(prev, ticker) == FilterRows(prev, ticker)

\* The page of viewer v handles the next response of its stream.
Receive(v) ==
  /\ received[v] < Len(sent[v])
  /\ tickers' = [tickers EXCEPT ![v] = StreamHandler(@, sent[v][received[v] + 1])]
  /\ received' = [received EXCEPT ![v] = @ + 1]
  /\ UNCHANGED <<regVars, scraperVars, calls, provSeq, updateQueue, viewerVars,
                 shutdown, removeClicks>>

\* Viewer v clicks the remove button of the row of S: the row goes, and the
\* RemoveTicker request is sent (it arrives as a RemoveTicker step).
HandleRemoveTicker(v, S) ==
  /\ FindIndex(tickers[v], S) # 0
  /\ tickers' = [tickers EXCEPT ![v] = ShownAfterClick(@, S)]
  /\ removeClicks' = [removeClicks EXCEPT ![v][S] = Len(calls)]
  /\ UNCHANGED <<regVars, scraperVars, calls, provSeq, updateQueue, viewerVars,
                 shutdown, received>>

\* The page of viewer v is handed a response, whatever the server sent.
AnyResponse(v, response) ==
  /\ tickers' = [tickers EXCEPT ![v] = StreamHandler(@, response)]
  /\ UNCHANGED <<regVars, scraperVars, calls, provSeq, updateQueue, viewerVars,
                 shutdown, received, removeClicks>>

\* The responses a page is tried with: prices in hundredths.
Responses ==
  [ticker : Symbols, price : {100, 101, 102}, removed : BOOLEAN, upd : {0}]

\* The steps of the pages of the viewers V against the server's stream.
ClientNext(V) ==
  \/ \E v \in V : Receive(v)
  \/ \E v \in V, S \in Symbols : HandleRemoveTicker(v, S)

\* The steps of pages against arbitrary responses.
HomeNext ==
  \/ \E v \in Viewers, response \in Responses : AnyResponse(v, response)
  \/ \E v \in Viewers, S \in Symbols : HandleRemoveTicker(v, S)

RemoveNext(R) ==
  \/ \E r \in R : RemoveTicker(r)
  \/ \E c \in 1..Len(calls), b \in BOOLEAN : RemoveClosed(c, b)

Feed(T) == \E p \in 1..Len(tabs), t \in T : PriceCallback(p, t)

\* One viewer against the feed and a removal.
StreamNext == ViewerNext({"v1"}) \/ RemoveNext(ReqTickers) \/ Feed(RawTexts)

SpecStream == InitStream /\ [][StreamNext]_vars

\* Two viewers against the feed and a removal.
FanoutNext == ViewerNext(Viewers) \/ RemoveNext(ReqTickers) \/ Feed(FeedTexts)

SpecFanout == InitStream /\ [][FanoutNext]_vars

\* The state after the symbols of `order` were added one after the other,
\* each request returning before the next one started.
\* (SpecReg reaches Added(<<"A">>) and Added(<<"B", "A">>) from Init.)
Added(order) ==
  LET n == Len(order)
      at(S) == CHOOSE i \in 1..n : order[i] = S
      in(S) == \E i \in 1..n : order[i] = S
  IN /\ activeTickers = [i \in 1..n |-> [symbol |-> order[i], obj |-> i]]
     /\ tickerObjs = [i \in 1..n |-> TickerData(order[i])]
     /\ pages = [S \in Symbols |-> IF in(S) THEN at(S) ELSE 0]
     /\ subscriptions = {order[i] : i \in 1..n}
     /\ tabs = [i \in 1..n |-> [symbol |-> order[i], open |-> TRUE,
                                exposed |-> TRUE, observing |-> TRUE]]
     /\ calls = [i \in 1..n |-> AddedCall(order[i], i)]
     /\ provSeq = [S \in Symbols |-> 0]
     /\ streamingClients = {}
     /\ isActive = [v \in Viewers |-> FALSE]
     /\ updateQueue = [v \in Viewers |-> <<>>]
     /\ currentTickers = [v \in Viewers |-> <<>>]
     /\ snapIdx = [v \in Viewers |-> 0]
     /\ vpc = [v \in Viewers |-> "idle"]
     /\ aborted = [v \in Viewers |-> FALSE]
     /\ sent = [v \in Viewers |-> <<>>]
     /\ snap = [v \in Viewers |-> NoSnap]
     /\ shutdown = Running
     /\ tickers = [v \in Viewers |-> <<>>]
     /\ received = [v \in Viewers |-> 0]
     /\ removeClicks = [v \in Viewers |-> [S \in Symbols |-> Null]]

\* Requests against a server that tracks one symbol.
InitTracked == Added(<<"A">>)

SpecTracked == InitTracked /\ [][RegNext]_vars

\* One viewer against the feed and a removal, the two symbols having been
\* added in either order.
InitAnyOrder == Added(<<"A", "B">>) \/ Added(<<"B", "A">>)

SpecSnap == InitAnyOrder /\ [][StreamNext]_vars

\* SpecStream with the scheduling the runtime gives a streamPrices call: the
\* 100 ms timer fires, the transport takes a value the generator offers, and
\* it ends the generator once the call's signal has aborted.
StreamFairness ==
  /\ WF_vars(Tick("v1"))
  /\ WF_vars(LiveNext("v1"))
  /\ WF_vars(SnapshotNext("v1"))
  /\ WF_vars(aborted["v1"] /\ Cancel("v1"))

SpecStreamFair == SpecStream /\ StreamFairness

\* Two viewers against the feed alone.
IsolationNext == ViewerNext(Viewers) \/ Feed(FeedTexts)

SpecIsolation == InitStream /\ [][IsolationNext]_vars

\* The pages of two viewers against any sequence of responses and clicks.
SpecHome == Init /\ [][HomeNext]_vars

\* One viewer and its page against the feed and removals.
ClientStreamNext ==
  ViewerNext({"v1"}) \/ ClientNext({"v1"}) \/ RemoveNext(ReqTickers) \/ Feed(FeedTexts)

SpecClient == InitStream /\ [][ClientStreamNext]_vars

\* Requests and one viewer against a server that tracks one symbol.
ServeNext == CallNext(ReqTickers, FeedTexts) \/ ViewerNext({"v1"})

SpecServe == InitTracked /\ [][ServeNext]_vars

\* SIGINT against a server that tracks two symbols: removals, the feed and
\* the shutdown.
CloseNext == (Alive /\ (RemoveNext(ReqTickers) \/ Feed(RawTexts))) \/ ShutdownNext

SpecClose == InitStream /\ [][CloseNext]_vars

(* ====================================================================== *)
(* Properties                                                             *)
(* ====================================================================== *)

\* InitStream is a state the server reaches from Init (SpecReg violates the
\* negation of this predicate).
InitStreamReached ==
  /\ activeTickers = <<[symbol |-> "A", obj |-> 1], [symbol |-> "B", obj |-> 2]>>
  /\ subscriptions = {"A", "B"}
  /\ Len(tabs) = 2 /\ \A p \in 1..2 : tabs[p].open /\ tabs[p].observing
  /\ pages = [S \in Symbols |-> IF S = "A" THEN 1 ELSE 2]
  /\ Len(calls) = 2 /\ InFlight = {}
  /\ calls = <<AddedCall("A", 1), AddedCall("B", 2)>>
  /\ provSeq = [S \in Symbols |-> 0]

\* C1: lockstep. Once no request is in flight, a symbol is in the registry
\* if and only if the scraper holds a session for it (subscribed, with an
\* open page in pages).
C1_Lockstep ==
  InFlight = {} => \A S \in Symbols : Has(S) <=> HasSession(S)

\* Two AddTicker requests for S, the second begun while the first was in
\* flight, both returned, neither hit a provider failure, and no other
\* request touched S.
ConcurrentAdds(c1, c2, S) ==
  /\ c1 \in calls[c2].during
  /\ \A c \in {c1, c2} :
       /\ calls[c].op = "add" /\ calls[c].ticker = S /\ calls[c].pc = "done"
       /\ calls[c].resp \notin {"invalid", "error"} /\ ~calls[c].failed
  /\ \A c \in 1..Len(calls) : calls[c].ticker = S => c \in {c1, c2}

\* C2: no duplicate sessions. After two concurrent AddTicker(S) exactly one
\* tab for S is open and the second request answered "already tracked".
C2_NoDuplicateSessions ==
  \A S \in Symbols : \A c1, c2 \in 1..Len(calls) :
    ConcurrentAdds(c1, c2, S) =>
      /\ Cardinality(OpenTabs(S)) = 1
      /\ calls[c2].resp = "already"

\* The responses that carry success=false.
FailureResponses == {"already", "invalid", "nottracked"}

\* S has an open page recorded in pages.
SessionPageOpen(S) == HasPage(S) /\ tabs[pages[S]].open

\* Exactly one AddTicker(S) and one RemoveTicker(S) were issued and both
\* have returned.
AddAndRemove(S) ==
  /\ Len(calls) = 2 /\ InFlight = {}
  /\ {calls[1].op, calls[2].op} = {"add", "remove"}
  /\ calls[1].ticker = S /\ calls[2].ticker = S

RespOf(op) == calls[CHOOSE c \in 1..Len(calls) : calls[c].op = op].resp

\* What the two requests answered and what they left behind.
Outcome(S) ==
  [add |-> RespOf("add"), remove |-> RespOf("remove"), reg |-> Has(S),
   sub |-> S \in subscriptions, page |-> HasPage(S),
   open |-> Cardinality(OpenTabs(S))]

Out(a, r, reg, sub, page, open) ==
  [add |-> a, remove |-> r, reg |-> reg, sub |-> sub, page |-> page, open |-> open]

\* Every outcome of the two serial orders, over all provider behaviours
\* (validation result, page load, handshake, page close). SerialCovered
\* checks that no serial run falls outside this set.
SerialOutcomes ==
  { Out("invalid", "nottracked", FALSE, FALSE, FALSE, 0),
    Out("error", "ok", FALSE, FALSE, FALSE, 1),
    Out("error", "nottracked", TRUE, FALSE, FALSE, 1),
    Out("ok", "nottracked", FALSE, FALSE, TRUE, 1),
    Out("ok", "nottracked", TRUE, TRUE, TRUE, 1),
    Out("ok", "ok", FALSE, FALSE, FALSE, 0),
    Out("ok", "ok", FALSE, FALSE, FALSE, 1) }

SerialCovered ==
  \A S \in Symbols :
    AddAndRemove(S) /\ calls[2].during = {} => Outcome(S) \in SerialOutcomes

\* C3: one AddTicker(S) and one RemoveTicker(S), however interleaved, answer
\* and leave the registry, subscriptions and pages as one of the two serial
\* orders does.
C3_AddRemoveSerialize ==
  \A S \in Symbols : AddAndRemove(S) => Outcome(S) \in SerialOutcomes

\* The step in which AddTicker request c ends after validation passed and
\* the provider session could not be established (page load or handshake).
SubscribeFailedStep(c) ==
  /\ calls[c].op = "add" /\ calls[c].pc \in {"goto", "handshake", "inject"}
  /\ calls'[c].pc = "done"
  /\ calls'[c].failed \/ calls'[c].resp = "error"

NoEntryNoSession(S) ==
  ~Has(S) /\ S \notin subscriptions /\ ~SessionPageOpen(S) /\ OpenTabs(S) = {}

\* C5: when session establishment fails after validation passed, AddTicker
\* answers success=false and S is left with no registry entry, no
\* subscription and no open page.
C5_SubscribeFailureRollsBack ==
  [][\A c \in 1..Len(calls) :
       SubscribeFailedStep(c) =>
         /\ calls'[c].resp \in FailureResponses
         /\ NoEntryNoSession(calls[c].ticker)']_vars

\* The step in which the error callback fires for request c (the catch
\* block of subscribeToTicker runs).
ErrorCallbackStep(c) == ~calls[c].failed /\ calls'[c].failed

\* C6: after the error callback fired for S, the registry entry, the
\* subscription and the open page of S are all gone.
C6_ErrorCallbackCleansUp ==
  [][\A c \in 1..Len(calls) :
       ErrorCallbackStep(c) =>
         (LET S == calls[c].ticker IN
            ~Has(S) /\ S \notin subscriptions /\ ~SessionPageOpen(S))']_vars

\* The step in which removeTicker finds S tracked and goes on to tear the
\* session down (unsubscribeFromTicker starts in the same step).
RemoveAcceptedStep(S) ==
  /\ Len(calls') = Len(calls) + 1
  /\ calls'[Len(calls')].op = "remove"
  /\ calls'[Len(calls')].ticker = S
  /\ calls'[Len(calls')].resp # "nottracked"

\* q2 is q with one Removed event for S appended.
RemovedAppended(q, q2, S) ==
  /\ Len(q2) = Len(q) + 1
  /\ SubSeq(q2, 1, Len(q)) = q
  /\ q2[Len(q2)].removed /\ q2[Len(q2)].ticker = S

\* C4: when RemoveTicker(S) finds S tracked, a Removed event for S is put on
\* the queue of every registered active viewer before the session of S is
\* torn down.
C4_RemovedBeforeTeardown ==
  [][\A S \in Symbols :
       RemoveAcceptedStep(S) =>
         \A v \in streamingClients :
           isActive[v] => RemovedAppended(updateQueue[v], updateQueue'[v], S)]_vars

\* C7: what one viewer is sent for a symbol goes strictly forward through the
\* provider's notifications: never an earlier one after a later one, never
\* the same one twice, snapshot and live tail taken together.
C7_NoStaleNoDuplicate ==
  \A v \in Viewers : \A i, j \in 1..Len(sent[v]) :
    (i < j /\ sent[v][i].ticker = sent[v][j].ticker)
      => sent[v][i].upd < sent[v][j].upd

\* C8: a streamPrices call that has ended, on whatever path, has its client
\* out of streamingClients and marked inactive.
C8_CleanupOnEveryExit ==
  \A v \in Viewers :
    vpc[v] \in {"closed", "returned"} => v \notin streamingClients /\ ~isActive[v]

\* The step in which a price notification for S is published (the callback
\* found the ticker and ran the broadcast loop).
PublishStep(S) == provSeq'[S] = provSeq[S] + 1 /\ Has(S)

\* C9: per-viewer FIFO. While a viewer is registered and active, every
\* published update is appended at the back of its queue, and the queue
\* changes otherwise only by its head being emitted to the viewer.
C9_PerViewerFIFO ==
  [][\A v \in Viewers :
       (v \in streamingClients /\ isActive[v]) =>
         LET q == updateQueue[v]
             q2 == updateQueue'[v]
         IN IF \E S \in Symbols : PublishStep(S)
            THEN \E S \in Symbols :
                   /\ PublishStep(S)
                   /\ Len(q2) = Len(q) + 1
                   /\ SubSeq(q2, 1, Len(q)) = q
                   /\ q2[Len(q2)].ticker = S
                   /\ q2[Len(q2)].upd = provSeq'[S]
                   /\ sent'[v] = sent[v]
            ELSE \/ q2 = q /\ (sent'[v] = sent[v] \/ vpc[v] = "snapYield")
                 \/ /\ q # <<>>
                    /\ q2 = Tail(q)
                    /\ sent'[v] = Append(sent[v], Head(q))]_vars

\* A viewer connected before any price was known has been sent the first
\* two notifications of one symbol, in that order.
C9_Witness ==
  \E v \in Viewers :
    /\ isActive[v] /\ snapIdx[v] = 0 /\ Len(sent[v]) >= 2
    /\ sent[v][1].ticker = sent[v][2].ticker
    /\ sent[v][1].upd = 1 /\ sent[v][2].upd = 2

\* C10: a price callback for a symbol that is not in the registry changes no
\* registry entry and no viewer queue.
C10_StaleCallbackIsNoOp ==
  [][\A S \in Symbols :
       (provSeq'[S] # provSeq[S] /\ ~Has(S))
         => UNCHANGED <<activeTickers, tickerObjs, updateQueue>>]_vars

\* A callback for a removed symbol was delivered while a viewer was
\* connected: the symbol never got a price and the viewer got nothing.
C10_Witness ==
  \E S \in Symbols :
    /\ provSeq[S] >= 1 /\ ~Has(S)
    /\ \A o \in 1..Len(tickerObjs) :
         tickerObjs[o].symbol = S => tickerObjs[o].currentPrice = Null
    /\ \E v \in streamingClients :
         isActive[v] /\ updateQueue[v] = <<>> /\ sent[v] = <<>>

\* The request that starts in this step, 0 if none does.
Started == IF Len(calls') = Len(calls) + 1 THEN Len(calls') ELSE 0

\* C11: AlreadyTracked. An AddTicker request works on the upper-cased
\* symbol, and when that symbol is in the registry as the request arrives
\* it returns at once with success=false and changes nothing: the registry
\* entry with its current price, the subscription, the page and the
\* viewers' queues are as they were.
C11_AlreadyTracked ==
  [][LET c == Started IN
     (c # 0 /\ calls'[c].op = "add")
       => /\ calls'[c].ticker \in Symbols
          /\ calls'[c].ticker \in Registry
               => /\ calls'[c].pc = "done" /\ calls'[c].resp = "already"
                  /\ UNCHANGED <<activeTickers, tickerObjs, pages, subscriptions,
                                 tabs, provSeq, updateQueue>>]_vars

\* An AddTicker was refused for a tracked symbol that has a price.
C11_Witness ==
  \E c \in 1..Len(calls) :
    /\ calls[c].op = "add" /\ calls[c].resp = "already"
    /\ Has(calls[c].ticker)
    /\ tickerObjs[Get(calls[c].ticker)].currentPrice # Null
    /\ HasSession(calls[c].ticker)

\* C12: InvalidSymbol. When validateTicker returns false for a request, the
\* request returns success=false, the step creates no registry entry and no
\* session (registry, objects, pages, subscriptions and tabs are as they
\* were), and the page that validateTicker opened is closed.
C12_InvalidSymbol ==
  [][\A c \in 1..Len(calls) :
       ValidateDone(c, FALSE)
         => /\ calls[c].vpage = "open" /\ calls'[c].vpage = "closed"
            /\ calls'[c].pc = "done" /\ calls'[c].resp \in FailureResponses
            /\ UNCHANGED <<activeTickers, tickerObjs, pages, subscriptions, tabs>>]_vars

\* A request was refused as invalid; the symbol is not tracked and has no
\* session.
C12_Witness ==
  \E c \in 1..Len(calls) :
    /\ calls[c].op = "add" /\ calls[c].resp = "invalid" /\ calls[c].vpage = "closed"
    /\ ~Has(calls[c].ticker) /\ ~HasPage(calls[c].ticker)
    /\ calls[c].ticker \notin subscriptions

\* Request c and the request before it are RemoveTicker requests for the
\* same symbol, issued in a row: nothing was in flight when either started.
RemovedTwice(cs, c) ==
  /\ c >= 2
  /\ cs[c].op = "remove" /\ cs[c - 1].op = "remove"
  /\ cs[c].ticker = cs[c - 1].ticker
  /\ cs[c].during = {} /\ cs[c - 1].during = {}

\* C13: RemoveTicker is idempotent. When RemoveTicker(S) is called twice in
\* a row for a symbol that was tracked (the second after the first has
\* returned, nothing else in flight), the first returns success=true, the
\* second returns success=false (not tracked) at once and changes no state,
\* and neither fails.
C13_RemoveIdempotent ==
  [][LET c == Started IN
     (c # 0 /\ RemovedTwice(calls', c) /\ calls[c - 1].resp # "nottracked")
       => /\ calls[c - 1].resp = "ok"
          /\ calls'[c].pc = "done" /\ calls'[c].resp = "nottracked"
          /\ UNCHANGED <<activeTickers, tickerObjs, pages, subscriptions, tabs,
                         provSeq, updateQueue>>]_vars

\* Two RemoveTicker requests in a row for a symbol that was tracked.
C13_Witness ==
  \E c \in 3..Len(calls) :
    /\ RemovedTwice(calls, c)
    /\ calls[c - 1].resp = "ok" /\ calls[c].resp = "nottracked"
    /\ calls[c - 2].op = "add" /\ calls[c - 2].resp = "ok"
    /\ calls[c - 2].ticker = calls[c].ticker

\* The snapshot loop of viewer v is over and the generator went on to the
\* live loop.
SnapshotOver(v) == vpc[v] \in {"sleep", "liveYield", "closed"}

\* C14: snapshot correctness. The snapshot loop of a streamPrices call
\* yields no symbol twice, yields only symbols that had a price when the
\* call started, and by the time it is over it has yielded every symbol
\* that had one.
C14_SnapshotCorrect ==
  \A v \in Viewers :
    LET e == snap[v].emitted IN
    /\ \A i, j \in 1..Len(e) : e[i] = e[j] => i = j
    /\ \A i \in 1..Len(e) : e[i] \in snap[v].known
    /\ SnapshotOver(v) => \A S \in snap[v].known : \E i \in 1..Len(e) : e[i] = S

\* Position of a symbol in ascending order.
SymbolRank(S) == IF S = "A" THEN 1 ELSE 2

\* C15: snapshot order. The symbols yielded by the snapshot loop of a
\* streamPrices call are in ascending order.
C15_SnapshotSorted ==
  \A v \in Viewers :
    LET e == snap[v].emitted IN
    \A i, j \in 1..Len(e) : i < j => SymbolRank(e[i]) < SymbolRank(e[j])

\* The stream of viewer v is Closed: its client is out of streamingClients
\* and marked inactive.
Closed(v) == v \notin streamingClients /\ ~isActive[v]

\* C16: cancellation liveness. Once the signal of a viewer's call has
\* aborted, the stream eventually is Closed, whether it was in the snapshot
\* loop or in the live loop.
C16_AbortLeadsToClosed == \A v \in Viewers : aborted[v] ~> Closed(v)

\* C17: inactive viewers receive nothing. Once the isActive flag of a
\* streamPrices call has become false, no step appends to (or otherwise
\* changes) its queue, and the flag stays false.
C17_InactiveReceivesNothing ==
  [][\A v \in Viewers :
       (vpc[v] # "idle" /\ ~isActive[v])
         => ~isActive'[v] /\ updateQueue'[v] = updateQueue[v]]_vars

\* A price was published after a viewer's stream had closed: the symbol has
\* a price the viewer was never given.
C17_Witness ==
  \E v \in Viewers :
    /\ vpc[v] = "closed" /\ ~isActive[v]
    /\ sent[v] = <<>> /\ updateQueue[v] = <<>>
    /\ \E S \in Symbols : Has(S) /\ tickerObjs[Get(S)].currentPrice # Null

\* Viewer v is registered and is not draining: updates wait in its queue.
Stalled(v) == v \in streamingClients /\ isActive[v] /\ updateQueue[v] # <<>>

\* The generator of viewer w yields the head of its queue.
Emits(w) ==
  /\ Tick(w) \/ LiveNext(w)
  /\ sent'[w] = Append(sent[w], Head(updateQueue[w]))

\* C18: isolation. While some viewer is stalled, every update published is
\* appended, in that same step, to the queue of every other registered
\* active viewer, and such a viewer, in its live loop with updates queued
\* and its call not aborted, can emit the head of its queue.
C18_Isolation ==
  [][\A v, w \in Viewers :
       (v # w /\ Stalled(v) /\ w \in streamingClients /\ isActive[w])
         => /\ \A S \in Symbols :
                 PublishStep(S)
                   => /\ Len(updateQueue'[w]) = Len(updateQueue[w]) + 1
                      /\ updateQueue'[w][Len(updateQueue'[w])].ticker = S
                      /\ updateQueue'[w][Len(updateQueue'[w])].upd = provSeq'[S]
            /\ (/\ updateQueue[w] # <<>>
                /\ vpc[w] \in {"sleep", "liveYield"}
                /\ ~aborted[w])
                 => ENABLED Emits(w)]_vars

\* One viewer has been given two live updates and has nothing queued while
\* the same two updates still wait in the queue of the other.
C18_Witness ==
  \E v, w \in Viewers :
    /\ v # w /\ Stalled(v) /\ Len(updateQueue[v]) >= 2
    /\ w \in streamingClients /\ isActive[w] /\ updateQueue[w] = <<>>
    /\ Len(sent[w]) >= 2 /\ snapIdx[w] = 0
    /\ \A i \in 1..2 : sent[w][i] = updateQueue[v][i]

\* The tabs that are open.
OpenPages == {p \in 1..Len(tabs) : tabs[p].open}

\* C19: closeAll is best-effort. A page.close() that fails in the loop of
\* scraper.close() does not make close() raise, and once shutdown is over
\* every page, the context and the browser are closed.
C19_CloseAllBestEffort ==
  /\ shutdown.pc # "raised"
  /\ shutdown.pc = "exited" => shutdown.closed /\ OpenPages = {}

\* subscribeToTicker returns for request c in this step, having found its
\* symbol in subscriptions when it was called.
Resubscribed(c) ==
  /\ calls'[c].pc = "done" /\ calls'[c].resp = "ok"
  /\ \/ calls[c].pc = "resubClose"
     \/ calls[c].pc = "validate" /\ calls[c].ticker \in subscriptions

\* C20: a subscribe request for a symbol that already has a session leaves
\* that session in place: when subscribeToTicker returns, having been called
\* while the symbol was in subscriptions, the symbol is still subscribed
\* and its page is still open.
C20_ResubscribeKeepsSession ==
  [][\A c \in 1..Len(calls) :
       Resubscribed(c)
         => /\ calls[c].ticker \in subscriptions'
            /\ pages'[calls[c].ticker] # 0
            /\ tabs'[pages'[calls[c].ticker]].open]_vars

\* unsubscribeFromTicker(S) is called in this step by request c (from
\* removeTicker, or from the already-subscribed branch of subscribeToTicker)
\* and runs to its await or, without a page, to its end.
UnsubscribeCalled(c, S) ==
  /\ calls'[c].ticker = S
  /\ \/ /\ c = Started /\ calls'[c].op = "remove" /\ calls'[c].resp # "nottracked"
     \/ /\ c <= Len(calls) /\ calls[c].pc = "validate"
        /\ calls'[c].pc \in {"resubClose", "done"} /\ calls'[c].resp # "invalid"
        /\ S \in subscriptions

\* unsubscribeFromTicker(S) of request c resumes after page.close() and ends.
UnsubscribeResumed(c, S) ==
  /\ c <= Len(calls) /\ calls[c].ticker = S
  /\ calls[c].pc \in {"removeClose", "resubClose"} /\ calls'[c].pc = "done"

\* C21: unsubscribe is idempotent. unsubscribeFromTicker(S) takes S out of
\* subscriptions at once; with no page for S it ends there without an error
\* and changes nothing else of the scraper (nothing at all when S was not
\* subscribed, which is the case of a second call after a first); with a
\* page it ends after page.close() with S out of pages, whether the close
\* failed or not, and the request that called it does not fail.
C21_UnsubscribeIdempotent ==
  [][\A S \in Symbols : \A c \in 1..Len(calls') :
       /\ UnsubscribeCalled(c, S)
            => /\ subscriptions' = subscriptions \ {S}
               /\ UNCHANGED <<pages, tabs>>
               /\ ~HasPage(S) => calls'[c].pc = "done" /\ calls'[c].resp = "ok"
               /\ (~HasPage(S) /\ S \notin subscriptions) => UNCHANGED scraperVars
       /\ UnsubscribeResumed(c, S)
            => /\ pages'[S] = 0
               /\ calls'[c].resp = "ok"
               /\ UNCHANGED subscriptions]_vars

\* unsubscribeFromTicker has run with a page whose close failed (the tab is
\* still open, pages has dropped it) and then again for the same symbol
\* with no session left (a removal that found no page).
C21_Witness ==
  /\ InFlight = {}
  /\ \E c, e \in 1..Len(calls) :
       /\ c < e
       /\ calls[e].op = "remove" /\ calls[e].resp = "ok" /\ calls[e].page = 0
       /\ calls[c].ticker = calls[e].ticker
       /\ calls[c].resp = "ok" /\ ~calls[c].failed /\ calls[c].page # 0
       /\ tabs[calls[c].page].open
       /\ pages[calls[c].ticker] = 0

\* C22: the displayed ticker list of every viewer is in ascending order of
\* symbol with no symbol on two rows, after any sequence of price responses,
\* removed responses and remove clicks.
C22_ListSortedUnique ==
  \A v \in Viewers :
    \A i, j \in 1..Len(tickers[v]) :
      i < j => SymbolRank(tickers[v][i].symbol) < SymbolRank(tickers[v][j].symbol)

\* One viewer's list shows both symbols; another viewer's list shows B alone
\* after that viewer clicked A away.
C22_Witness ==
  \E v, w \in Viewers :
    /\ Len(tickers[v]) = 2
    /\ Len(tickers[w]) = 1 /\ tickers[w][1].symbol = "B"
    /\ removeClicks[w]["A"] # Null

\* The number of updates the live loop of viewer v has yielded.
LiveSent(v) == Len(sent[v]) - Len(snap[v].emitted)

\* The number of updates appended to the queue of viewer v so far (each is
\* still queued or was yielded by the live loop).
Appended(v) == LiveSent(v) + Len(updateQueue[v])

\* C23: live delivery. The n-th update appended to the queue of a viewer is
\* eventually yielded to that viewer, unless its call is cancelled, when the
\* timer fires and the consumer keeps taking the values offered.
C23_QueuedIsEmitted ==
  \A v \in Viewers : \A n \in 1..MaxUpdates :
    (Appended(v) >= n) ~> (LiveSent(v) >= n \/ aborted[v])

\* A viewer still connected was sent a snapshot and then two live updates,
\* and has nothing left in its queue.
C23_Witness ==
  \E v \in Viewers :
    /\ ~aborted[v] /\ isActive[v]
    /\ Len(snap[v].emitted) >= 1
    /\ LiveSent(v) >= 2 /\ updateQueue[v] = <<>>

\* AddTicker request c returns success=true in this step.
AddSucceeds(c) ==
  /\ c <= Len(calls) /\ calls[c].pc # "done"
  /\ calls'[c].op = "add" /\ calls'[c].pc = "done" /\ calls'[c].resp = "ok"

\* C24: whenever an AddTicker request returns success=true, at that moment
\* its symbol is in the registry, is subscribed, and has an open page in
\* pages.
C24_AddSuccessMeansSession ==
  [][\A c \in 1..Len(calls') :
       AddSucceeds(c)
         => LET S == calls[c].ticker IN
            /\ S \in Registry'
            /\ S \in subscriptions'
            /\ pages'[S] # 0
            /\ tabs'[pages'[S]].open]_vars

\* Viewer v is connected, its call not cancelled, its snapshot loop over and
\* its queue drained.
Settled(v) ==
  /\ v \in streamingClients /\ isActive[v] /\ ~aborted[v]
  /\ SnapshotOver(v)
  /\ updateQueue[v] = <<>>

\* The price the registry holds for S, as a response would carry it.
RegistryPrice(S) == (tickerObjs[Get(S)].currentPrice + 5) \div 10

\* C25: convergence. For a viewer that is connected and has drained its
\* queue, and every tracked symbol whose price is known, the last update
\* the viewer was sent for that symbol carries the registry's current price
\* of it.
C25_ViewerConverges ==
  \A v \in Viewers :
    Settled(v) =>
      \A S \in Symbols :
        (Has(S) /\ tickerObjs[Get(S)].currentPrice # Null) =>
          \E i \in 1..Len(sent[v]) :
            /\ sent[v][i].ticker = S
            /\ \A j \in (i + 1)..Len(sent[v]) : sent[v][j].ticker # S
            /\ sent[v][i].price = RegistryPrice(S)

\* A settled viewer was sent a snapshot price of a symbol and later two
\* live updates of it, the last one with another price than the first.
C25_Witness ==
  \E v \in Viewers : \E S \in Symbols :
    /\ Settled(v) /\ Has(S)
    /\ Len(snap[v].emitted) >= 1 /\ snap[v].emitted[1] = S
    /\ Len(sent[v]) >= 3
    /\ sent[v][Len(sent[v])].ticker = S
    /\ sent[v][Len(sent[v])].price # sent[v][1].price

\* Viewer v has clicked remove for S, a RemoveTicker(S) that reached the
\* server after the click has returned success=true, and no AddTicker(S) has
\* reached the server since the click.
RemovedByViewer(v, S) ==
  /\ removeClicks[v][S] # Null
  /\ \E c \in (removeClicks[v][S] + 1)..Len(calls) :
       /\ calls[c].op = "remove" /\ calls[c].ticker = S
       /\ calls[c].pc = "done" /\ calls[c].resp = "ok"
  /\ \A c \in (removeClicks[v][S] + 1)..Len(calls) :
       ~(calls[c].op = "add" /\ calls[c].ticker = S)

\* C26: end-to-end removal. Once a viewer has clicked remove for S and
\* RemoveTicker(S) has returned success=true, S is not on that viewer's
\* displayed list as long as S is not added again.
C26_RemovedStaysRemoved ==
  \A v \in Viewers : \A S \in Symbols :
    RemovedByViewer(v, S) => FindIndex(tickers[v], S) = 0

====
